---- MODULE Spec2Model ----
(***************************************************************************)
(* Model of the proxy pool (proxy_utils.ProxyManager) and of the retrying  *)
(* transcript fetcher built on it (execute_with_proxy_rotation, called by  *)
(* youtube_utils.get_transcript).                                          *)
(*                                                                         *)
(* Proxy hosts are small integers; the endpoint string "http://host" is    *)
(* the record Http(host).  Time is an integer clock (time.time()); the     *)
(* refresh interval, the retry bound and the backup list are scaled down.  *)
(***************************************************************************)
EXTENDS Integers, Sequences, FiniteSets, TLC

(* ------------------------------ bounds -------------------------------- *)
\* number of distinct proxy hosts the remote sources can serve
NHosts == 3
\* number of clock ticks before the origin of time starts to move (see Tick)
MaxTicks == 1
\* ProxyManager(max_retries=...), scaled (10 for the global instance)
max_retries == 3
\* ProxyManager(refresh_interval=...), scaled (3600 seconds in the source)
refresh_interval == 1
\* number of fetch invocations running at once, each on a thread of its own
NThreads == 2
\* number of distinct proxy hosts the sources serve while they run
ConcHosts == 2
\* number of lexemes in the path of a URL
MaxPath == 4
\* number of parameters in the query of a URL
MaxParams == 2
\* number of caption tracks of a video
MaxTracks == 3
\* number of events of a caption payload
MaxEvents == 2
\* number of sub-segments of an event
MaxSegs == 2
\* number of lexemes in the content of a completion
MaxContent == 3

(* -------------------------- program constants ------------------------- *)
\* the three source URLs of refresh_proxies
NSources == 3
\* youtube_utils.PROXY_LIST, shortened to two hosts
PROXY_LIST == <<1, 2>>

Hosts == 1..NHosts
\* a response line that is empty after strip()
Blank == 0
\* time.time() when the module is imported: far more than one refresh
\* interval after the epoch value 0 that __init__ stores in last_refresh
StartTime == refresh_interval + 1
MaxTime == StartTime + MaxTicks

(* ------------------------------ helpers ------------------------------- *)
Range(s) == {s[i] : i \in 1..Len(s)}

NoDup(s) == \A i, j \in 1..Len(s) : i # j => s[i] # s[j]

\* f"http://{proxy.strip()}"
Http(h) == [scheme |-> "http", addr |-> h]

\* the direct connection (proxy = None)
Direct == [scheme |-> "direct", addr |-> 0]

\* {"http": proxy, "https": proxy}
ProxyDict(p) == [http |-> p, https |-> p]

\* list(set(xs)): some list holding every element of the set once, in an
\* order the program does not control
ListOfSet(S) == {o \in [1..Cardinality(S) -> S] : \A i, j \in 1..Cardinality(S) : i # j => o[i] # o[j]}

\* what one source answers: an exception or a non-200 status (ok = FALSE),
\* or a body of one line (the body "" splits into one blank line)
SourceResponses == {[ok |-> FALSE, lines |-> <<>>]} \cup {[ok |-> TRUE, lines |-> <<l>>] : l \in Hosts \cup {Blank}}

\* new_proxies of one source: blank lines dropped, the rest formatted
new_proxies(resp) == IF resp.ok THEN [i \in 1..Len(SelectSeq(resp.lines, LAMBDA l : l # Blank)) |-> Http(SelectSeq(resp.lines, LAMBDA l : l # Blank)[i])] ELSE <<>>

RECURSIVE fetch_sources(_, _)
\* the for loop over the sources: the concatenated candidate list
fetch_sources(resps, n) == IF n = 0 THEN <<>> ELSE fetch_sources(resps, n - 1) \o new_proxies(resps[n])

\* every candidate list the three sources can produce
FetchResults == {fetch_sources(r, NSources) : r \in [1..NSources -> SourceResponses]}

\* unique_proxies = list(set(proxies))
unique_proxies(fetched) == ListOfSet(Range(fetched))

\* the inputs of one refresh: the candidate list and the order list(set())
\* happens to produce
RefreshInputs == UNION {{[fetched |-> f, order |-> o] : o \in unique_proxies(f)} : f \in FetchResults}

\* the same without the candidate lists that differ only in repetitions,
\* which lead to the same lists of unique proxies
RefreshOutcomes == {in \in RefreshInputs : in.fetched = in.order}

\* one input for every list of unique proxies and every number of
\* candidates it can come from: a refresh reads nothing else of its input
RefreshClasses == {<<in.order, Len(in.fetched)>> : in \in RefreshInputs}

RepresentativeInputs == {CHOOSE in \in RefreshInputs : in.order = c[1] /\ Len(in.fetched) = c[2] : c \in RefreshClasses}

NoInput == [fetched |-> <<>>, order |-> <<>>]

(* ------------------------------- state -------------------------------- *)
VARIABLES
    proxies,        \* self.proxies: list of endpoints
    last_refresh,   \* self.last_refresh
    current_index,  \* self.current_index (0-based)
    used_proxies,   \* self.used_proxies
    clock,          \* time.time()
    pc,             \* position of the fetch invocation: "idle" or "loop"
    retries,        \* local retries of execute_with_proxy_rotation
    errors,         \* local errors of execute_with_proxy_rotation
    result,         \* what the last finished invocation returned or raised
    session_proxies, \* transcript_fetcher.session.proxies
    attempts,       \* history: the calls of func in this invocation, in order
    served,         \* history: endpoints returned by get_proxy since the last refresh
    start_index,    \* history: current_index when the invocation started
    inv_refreshed,  \* history: a refresh ran during the invocation
    no_captions,    \* history: an attempt of the invocation failed for lack of captions
    lastOp,         \* history: the operation that produced this state
    threads,        \* the invocations running at once: position and locals of each
    url,            \* the argument of extract_video_id
    video_id,       \* what extract_video_id returned or raised
    player_response, \* the ytInitialPlayerResponse of a video page
    caption_track,  \* the track each of the two resolvers chose, or its failure
    transcript_data, \* the json3 payload of a caption track
    transcript,     \* what each of the two decoders returned or raised
    topics,         \* generate_topic_timestamps: position, completions received, outcome
    http_response   \* what an endpoint of the API answered

poolVars == <<proxies, last_refresh, current_index, used_proxies>>
fetchVars == <<pc, retries, errors, result, session_proxies, attempts, start_index, inv_refreshed, no_captions>>
\* what belongs to the invocation that runs alone
seqVars == <<pc, retries, errors, result, attempts, served, start_index, inv_refreshed, no_captions, lastOp>>
\* what only the other operations of the program use
urlVars == <<url, video_id>>
trackVars == <<player_response, caption_track>>
decodeVars == <<transcript_data, transcript>>
pureVars == <<urlVars, trackVars, decodeVars, topics, http_response>>
auxVars == <<threads, pureVars>>
\* what the fetch invocations and the pool use
programVars == <<poolVars, clock, session_proxies, seqVars, threads>>
vars == <<poolVars, clock, session_proxies, seqVars, auxVars>>

Self == [proxies |-> proxies, last_refresh |-> last_refresh, current_index |-> current_index, used_proxies |-> used_proxies]

\* __init__ before its call of refresh_proxies
NewManager == [proxies |-> <<>>, last_refresh |-> 0, current_index |-> 0, used_proxies |-> {}]

NoCall == [tag |-> "NoCall", dict |-> ProxyDict(Direct)]

(* --------------------------- ProxyManager ----------------------------- *)
\* refresh_proxies recording the time of a refresh that obtained nothing
refresh_proxies_records_failure(self, in, t) ==
    IF in.order # <<>>
    THEN [proxies |-> in.order, used_proxies |-> {}, current_index |-> 0, last_refresh |-> t]
    ELSE [self EXCEPT !.proxies = [i \in 1..Len(PROXY_LIST) |-> Http(PROXY_LIST[i])], !.last_refresh = t]

\* refresh_proxies without the reset of the rotation cursor
refresh_proxies_keeps_index(self, in, t) ==
    IF in.order # <<>>
    THEN [proxies |-> in.order, used_proxies |-> {}, current_index |-> self.current_index, last_refresh |-> t]
    ELSE [self EXCEPT !.proxies = [i \in 1..Len(PROXY_LIST) |-> Http(PROXY_LIST[i])]]

refresh_proxies(self, in, t) ==
    IF in.order # <<>>
    THEN [proxies |-> in.order, used_proxies |-> {}, current_index |-> 0, last_refresh |-> t]
    ELSE [self EXCEPT !.proxies = [i \in 1..Len(PROXY_LIST) |-> Http(PROXY_LIST[i])]]

\* the outcome of the refresh that `in` describes
Outcome(in) == IF in.order # <<>> THEN "ok" ELSE "empty"

\* get_proxy: the manager after the call, what the call returned (or that it
\* raised IndexError), and what its refreshes obtained
get_proxy(self, in1, in2, t) ==
    LET stale == t - self.last_refresh > refresh_interval
        s1 == IF stale THEN refresh_proxies(self, in1, t) ELSE self
        again == s1.proxies = <<>>
        s2 == IF again THEN refresh_proxies(s1, in2, t) ELSE s1
        refreshed == IF again THEN Outcome(in2) ELSE IF stale THEN Outcome(in1) ELSE "no"
    IN  IF s2.proxies = <<>>
        THEN [self |-> s2, ret |-> [tag |-> "None", dict |-> ProxyDict(Direct)], refreshed |-> refreshed]
        ELSE IF s2.current_index >= Len(s2.proxies)
        THEN [self |-> s2, ret |-> [tag |-> "IndexError", dict |-> ProxyDict(Direct)], refreshed |-> refreshed]
        ELSE [self |-> [s2 EXCEPT !.current_index = (s2.current_index + 1) % Len(s2.proxies)],
              ret |-> [tag |-> "Some", dict |-> ProxyDict(s2.proxies[s2.current_index + 1])],
              refreshed |-> refreshed]

\* the refresh inputs a get_proxy call at time t consumes
FirstInputs(self, t) == IF t - self.last_refresh > refresh_interval THEN RefreshOutcomes ELSE {NoInput}

SecondInputs(self, in1, t) ==
    IF (IF t - self.last_refresh > refresh_interval THEN refresh_proxies(self, in1, t) ELSE self).proxies = <<>>
    THEN RefreshOutcomes ELSE {NoInput}

(* ------------------------- the fetch attempt -------------------------- *)
\* _fetch_transcript_with_proxy: the custom fetcher goes through the proxy;
\* when it fails, YouTubeTranscriptApi is tried; both failing is a failure
fetch_transcript_with_proxy(custom_ok, fallback_ok) == custom_ok \/ fallback_ok

\* what one call of func can do: return (TRUE) or raise (FALSE)
FetchOutcomes == {fetch_transcript_with_proxy(c, f) : c, f \in BOOLEAN}

\* how the custom fetcher ends: with a transcript, with "No captions found
\* for this video" / "No caption tracks found", or with any other exception
CustomOutcomes == {"ok", "NoCaptions", "FetchFailed"}

\* the call of func failed because the video has no caption tracks: the
\* custom fetcher said so and YouTubeTranscriptApi found nothing either
no_captions_failure(custom, fallback_ok) == custom = "NoCaptions" /\ ~fallback_ok

\* the ways one call of func can end
AttemptEnds == {[ok |-> fetch_transcript_with_proxy(c = "ok", f), no_captions |-> no_captions_failure(c, f)] : c \in CustomOutcomes, f \in BOOLEAN}

\* whether a call of func that ended as `ok` says failed for lack of captions
FailureKinds(ok) == {e.no_captions : e \in {x \in AttemptEnds : x.ok = ok}}

\* ProxyEnabledTranscriptFetcher.get_transcript sets the session's proxies to
\* the given dictionary, or clears them when there is none
SessionAfter(via) == IF via = Direct THEN {} ELSE {ProxyDict(via)}

\* f"Direct connection failed: ..." / f"Proxy {proxy_str} failed: ..."
Err(via) == [via |-> via]

Returned(used_proxy) == [kind |-> "return", exc |-> "", used_proxy |-> used_proxy, retries |-> 0, carried |-> <<>>]

\* raise Exception(f"All proxies failed after {retries} attempts. Last
\* error: {errors[-1] if errors else 'No error recorded'}")
AllProxiesFailed(n, errs) == [kind |-> "raise", exc |-> "AllProxiesFailed", used_proxy |-> Direct, retries |-> n, carried |-> IF errs # <<>> THEN <<errs[Len(errs)]>> ELSE <<>>]

\* the IndexError of get_proxy leaves execute_with_proxy_rotation as it is
IndexErrorRaised == [kind |-> "raise", exc |-> "IndexError", used_proxy |-> Direct, retries |-> 0, carried |-> <<>>]

NoResult == [kind |-> "none", exc |-> "", used_proxy |-> Direct, retries |-> 0, carried |-> <<>>]

\* the history of endpoints get_proxy returned since the last refresh, at
\* most one more than the pool holds
ServedAfter(old, r) ==
    LET base == IF r.refreshed # "no" THEN <<>> ELSE old
        ext == Append(base, r.ret.dict.http)
    IN  IF r.ret.tag # "Some" THEN base
        ELSE IF Len(ext) > Len(r.self.proxies) + 1 THEN Tail(ext) ELSE ext

\* the loop condition off by one
LoopCondition_le(r) == r <= max_retries

\* while retries < self.max_retries
LoopCondition(r) == r < max_retries

(* ------------------------------- Init --------------------------------- *)
\* proxy_manager = ProxyManager(max_retries=10): the constructor's refresh
\* obtained candidates (when it obtains none, the import of PROXY_LIST from
\* the half-loaded youtube_utils raises ImportError and the program does
\* not start)
ManagerInit(inputs, now) ==
    /\ clock \in now
    /\ \E in \in inputs :
          /\ in.order # <<>>
          /\ proxies = refresh_proxies(NewManager, in, StartTime).proxies
          /\ last_refresh = refresh_proxies(NewManager, in, StartTime).last_refresh
          /\ current_index = refresh_proxies(NewManager, in, StartTime).current_index
          /\ used_proxies = refresh_proxies(NewManager, in, StartTime).used_proxies
          /\ lastOp = [op |-> "init", refreshed |-> "ok", got |-> Range(in.fetched), n |-> Len(in.fetched), ret |-> NoCall]
    /\ pc = "idle"
    /\ retries = 0
    /\ errors = <<>>
    /\ result = NoResult
    /\ session_proxies = {}
    /\ attempts = <<>>
    /\ served = <<>>
    /\ start_index = 0
    /\ inv_refreshed = FALSE
    /\ no_captions = FALSE

\* no invocation is running
IdleThread == [pc |-> "idle", proxy |-> Direct, idx |-> 0, retries |-> 0]

Threads == 1..NThreads

ReturnId(v) == [kind |-> "return", value |-> v]

\* raise ValueError(f"Could not extract video ID from URL: {url}")
InvalidUrl(u) == [kind |-> "raise", value |-> u]

NotCalled == [kind |-> "none", value |-> <<>>]

\* no resolver has been called
NoTrack == [get_transcript |-> NotCalled, fetch_transcript |-> NotCalled]

\* no page has been fetched
NoPage == [captions |-> FALSE, renderer |-> FALSE, has_tracks |-> FALSE, captionTracks |-> <<>>]

\* no URL is being parsed
NoUrl == url = <<>> /\ video_id = NotCalled

\* no video page is being read
NoTracks == player_response = NoPage /\ caption_track = NoTrack

NotDecoded == [kind |-> "none", segments |-> <<>>]

\* no decoder has been called
NoTranscript == [get_transcript |-> NotDecoded, fetch_transcript |-> NotDecoded]

\* no caption payload is being decoded
NoPayload == transcript_data = [has_events |-> FALSE, events |-> <<>>] /\ transcript = NoTranscript

\* generate_topic_timestamps has neither returned nor raised
NoTopics == [kind |-> "none", value |-> <<>>, cause |-> ""]

\* generate_topic_timestamps is not running
NoTopicsCall == topics = [pc |-> "idle", responses |-> <<>>, result |-> NoTopics]

\* no request has been answered
NoRequest == [endpoint |-> "", status_code |-> 0, get_transcript |-> "none", generate |-> "none"]

NoHttp == http_response = NoRequest

\* the other operations of the program are not running
AuxIdle ==
    /\ threads = [t \in Threads |-> IdleThread]
    /\ NoUrl
    /\ NoTracks
    /\ NoPayload
    /\ NoTopicsCall
    /\ NoHttp

Init ==
    /\ ManagerInit(RefreshInputs, {StartTime})
    /\ AuxIdle

\* the program has started and the proxy pool is left alone
Started ==
    /\ ManagerInit({CHOOSE in \in RefreshOutcomes : in.order = <<Http(1)>>}, {StartTime})
    /\ threads = [t \in Threads |-> IdleThread]

(* ------------------------------ actions ------------------------------- *)
SetPool(s) ==
    /\ proxies' = s.proxies
    /\ last_refresh' = s.last_refresh
    /\ current_index' = s.current_index
    /\ used_proxies' = s.used_proxies

\* the locals and the outcome of a finished invocation are gone once the
\* program moves on; a running invocation keeps them
Forget ==
    IF pc = "idle"
    THEN /\ retries' = 0
         /\ errors' = <<>>
         /\ result' = NoResult
         /\ attempts' = <<>>
         /\ start_index' = 0
         /\ inv_refreshed' = FALSE
         /\ no_captions' = FALSE
         /\ UNCHANGED <<pc, session_proxies>>
    ELSE UNCHANGED fetchVars

\* time passes by one unit.  The program reads the clock only in the
\* difference clock - last_refresh, so beyond MaxTime the origin of time is
\* moved instead of the clock: both readings are one unit less, and a
\* last_refresh older than one interval stays that old
Tick ==
    /\ IF clock < MaxTime
       THEN clock' = clock + 1 /\ last_refresh' = last_refresh
       ELSE clock' = clock /\ last_refresh' = (IF last_refresh - 1 < clock - refresh_interval - 1 THEN last_refresh ELSE last_refresh - 1)
    /\ lastOp' = [op |-> "tick", refreshed |-> "no", got |-> {}, n |-> 0, ret |-> NoCall]
    /\ Forget
    /\ UNCHANGED <<proxies, current_index, used_proxies, served, auxVars>>

\* a call of refresh_proxies() (requests are served one at a time: no call
\* runs while a fetch invocation is in its loop)
Refresh ==
    /\ pc = "idle"
    /\ \E in \in RepresentativeInputs :
          /\ SetPool(refresh_proxies(Self, in, clock))
          /\ lastOp' = [op |-> "refresh", refreshed |-> Outcome(in), got |-> Range(in.fetched), n |-> Len(in.fetched), ret |-> NoCall]
    /\ served' = <<>>
    /\ Forget
    /\ UNCHANGED <<clock, auxVars>>

\* a call of get_proxy()
GetProxy ==
    /\ pc = "idle"
    /\ \E in1 \in FirstInputs(Self, clock) : \E in2 \in SecondInputs(Self, in1, clock) :
          LET r == get_proxy(Self, in1, in2, clock)
          IN  /\ SetPool(r.self)
              /\ served' = ServedAfter(served, r)
              /\ lastOp' = [op |-> "get_proxy", refreshed |-> r.refreshed, got |-> Range(in1.fetched) \cup Range(in2.fetched), n |-> Len(in1.fetched) + Len(in2.fetched), ret |-> r.ret]
    /\ Forget
    /\ UNCHANGED <<clock, auxVars>>

\* the first attempt made through the next proxy of the pool
DirectAttempt_rotates ==
    /\ pc = "idle"
    /\ current_index < Len(proxies)
    /\ \E ok \in FetchOutcomes :
          /\ attempts' = <<[via |-> proxies[current_index + 1], ok |-> ok]>>
          /\ session_proxies' = SessionAfter(proxies[current_index + 1])
          /\ errors' = IF ok THEN <<>> ELSE <<Err(proxies[current_index + 1])>>
          /\ retries' = 0
          /\ pc' = IF ok THEN "idle" ELSE "loop"
          /\ result' = IF ok THEN Returned(proxies[current_index + 1]) ELSE NoResult
          /\ \E nc \in FailureKinds(ok) : no_captions' = nc
    /\ current_index' = (current_index + 1) % Len(proxies)
    /\ start_index' = current_index
    /\ inv_refreshed' = FALSE
    /\ lastOp' = [op |-> "direct", refreshed |-> "no", got |-> {}, n |-> 0, ret |-> NoCall]
    /\ UNCHANGED <<proxies, last_refresh, used_proxies, clock, served, auxVars>>

\* execute_with_proxy_rotation up to the loop: the direct attempt
DirectAttempt ==
    /\ pc = "idle"
    /\ \E ok \in FetchOutcomes :
          /\  /\ attempts' = <<[via |-> Direct, ok |-> ok]>>
              /\ session_proxies' = SessionAfter(Direct)
              /\ errors' = IF ok THEN <<>> ELSE <<Err(Direct)>>
              /\ retries' = 0
              /\ pc' = IF ok THEN "idle" ELSE "loop"
              /\ result' = IF ok THEN Returned(Direct) ELSE NoResult
              /\ \E nc \in FailureKinds(ok) : no_captions' = nc
    /\ start_index' = current_index
    /\ inv_refreshed' = FALSE
    /\ lastOp' = [op |-> "direct", refreshed |-> "no", got |-> {}, n |-> 0, ret |-> NoCall]
    /\ UNCHANGED <<poolVars, clock, served, auxVars>>

\* one iteration that marks every attempted proxy, failed ones too
Iterate_marks_failed ==
    /\ pc = "loop"
    /\ LoopCondition(retries)
    /\ \E in1 \in FirstInputs(Self, clock) : \E in2 \in SecondInputs(Self, in1, clock) :
       \E ok \in FetchOutcomes :
          LET r == get_proxy(Self, in1, in2, clock)
              proxy_str == r.ret.dict.http
          IN  /\ served' = ServedAfter(served, r)
              /\ inv_refreshed' = (inv_refreshed \/ r.refreshed # "no")
              /\ lastOp' = [op |-> "iterate", refreshed |-> r.refreshed, got |-> Range(in1.fetched) \cup Range(in2.fetched), n |-> Len(in1.fetched) + Len(in2.fetched), ret |-> r.ret]
              /\ IF r.ret.tag = "None"
                 THEN \* break, then the raise after the loop
                      /\ SetPool(r.self)
                      /\ pc' = "idle"
                      /\ result' = AllProxiesFailed(retries, errors)
                      /\ UNCHANGED <<retries, errors, session_proxies, attempts, no_captions>>
                 ELSE IF r.ret.tag = "IndexError"
                 THEN /\ SetPool(r.self)
                      /\ pc' = "idle"
                      /\ result' = IndexErrorRaised
                      /\ UNCHANGED <<retries, errors, session_proxies, attempts, no_captions>>
                 ELSE IF proxy_str \in r.self.used_proxies
                 THEN \* continue
                      /\ SetPool(r.self)
                      /\ UNCHANGED <<pc, retries, errors, result, session_proxies, attempts, no_captions>>
                 ELSE /\ attempts' = Append(attempts, [via |-> proxy_str, ok |-> ok])
                      /\ session_proxies' = SessionAfter(proxy_str)
                      /\ \E nc \in FailureKinds(ok) : no_captions' = (no_captions \/ nc)
                      /\ IF ok
                         THEN /\ SetPool([r.self EXCEPT !.used_proxies = @ \cup {proxy_str}])
                              /\ pc' = "idle"
                              /\ result' = Returned(proxy_str)
                              /\ UNCHANGED <<retries, errors>>
                         ELSE /\ SetPool([r.self EXCEPT !.used_proxies = @ \cup {proxy_str}])
                              /\ errors' = Append(errors, Err(proxy_str))
                              /\ retries' = retries + 1
                              /\ UNCHANGED <<pc, result>>
    /\ UNCHANGED <<clock, start_index, auxVars>>

\* one iteration of the while loop
Iterate ==
    /\ pc = "loop"
    /\ LoopCondition(retries)
    /\ \E in1 \in FirstInputs(Self, clock) : \E in2 \in SecondInputs(Self, in1, clock) :
       \E ok \in FetchOutcomes :
          LET r == get_proxy(Self, in1, in2, clock)
              proxy_str == r.ret.dict.http
          IN  /\ served' = ServedAfter(served, r)
              /\ inv_refreshed' = (inv_refreshed \/ r.refreshed # "no")
              /\ lastOp' = [op |-> "iterate", refreshed |-> r.refreshed, got |-> Range(in1.fetched) \cup Range(in2.fetched), n |-> Len(in1.fetched) + Len(in2.fetched), ret |-> r.ret]
              /\ IF r.ret.tag = "None"
                 THEN \* break, then the raise after the loop
                      /\ SetPool(r.self)
                      /\ pc' = "idle"
                      /\ result' = AllProxiesFailed(retries, errors)
                      /\ UNCHANGED <<retries, errors, session_proxies, attempts, no_captions>>
                 ELSE IF r.ret.tag = "IndexError"
                 THEN /\ SetPool(r.self)
                      /\ pc' = "idle"
                      /\ result' = IndexErrorRaised
                      /\ UNCHANGED <<retries, errors, session_proxies, attempts, no_captions>>
                 ELSE IF proxy_str \in r.self.used_proxies
                 THEN \* continue
                      /\ SetPool(r.self)
                      /\ UNCHANGED <<pc, retries, errors, result, session_proxies, attempts, no_captions>>
                 ELSE /\ attempts' = Append(attempts, [via |-> proxy_str, ok |-> ok])
                      /\ session_proxies' = SessionAfter(proxy_str)
                      /\ \E nc \in FailureKinds(ok) : no_captions' = (no_captions \/ nc)
                      /\ IF ok
                         THEN /\ SetPool([r.self EXCEPT !.used_proxies = @ \cup {proxy_str}])
                              /\ pc' = "idle"
                              /\ result' = Returned(proxy_str)
                              /\ UNCHANGED <<retries, errors>>
                         ELSE /\ SetPool(r.self)
                              /\ errors' = Append(errors, Err(proxy_str))
                              /\ retries' = retries + 1
                              /\ UNCHANGED <<pc, result>>
    /\ UNCHANGED <<clock, start_index, auxVars>>

\* the loop condition fails: the raise after the loop
Exhausted ==
    /\ pc = "loop"
    /\ ~LoopCondition(retries)
    /\ pc' = "idle"
    /\ result' = AllProxiesFailed(retries, errors)
    /\ lastOp' = [op |-> "exhausted", refreshed |-> "no", got |-> {}, n |-> 0, ret |-> NoCall]
    /\ UNCHANGED <<poolVars, clock, retries, errors, session_proxies, attempts, served, start_index, inv_refreshed, no_captions, auxVars>>

Next == Tick \/ Refresh \/ GetProxy \/ DirectAttempt \/ Iterate \/ Exhausted

Spec == Init /\ [][Next]_vars

\* a running invocation keeps running, and time keeps passing; nothing
\* makes the remote sources answer
FairSpec == Spec /\ WF_vars(Iterate) /\ WF_vars(Exhausted) /\ WF_vars(Tick)

(* ----------------- fetch invocations running at once ------------------ *)
(* proxy_manager and transcript_fetcher are module globals without a lock. *)
(* Here NThreads invocations run execute_with_proxy_rotation on threads of *)
(* their own; a step is one read or one write of the shared objects (the   *)
(* interpreter may switch threads between any two of them).                *)

\* the candidates the sources serve while the threads run
ConcInputs == {in \in RefreshOutcomes : \A i \in 1..Len(in.order) : in.order[i].addr <= ConcHosts}

\* the program has started and has been idle, for a moment or for longer
\* than a refresh interval
ConcInit ==
    /\ ManagerInit(ConcInputs, {StartTime, StartTime + refresh_interval + 1})
    /\ AuxIdle

\* thread t moves on to th; the invocation that runs alone is not running
Step(t, th) ==
    /\ threads' = [threads EXCEPT ![t] = th]
    /\ UNCHANGED <<seqVars, clock, pureVars>>

\* where a thread goes after a call of func that failed: the while loop
\* again, or the raise after it
AfterFailure(th, r) == [th EXCEPT !.pc = IF LoopCondition(r) THEN "get_proxy" ELSE "idle", !.retries = r, !.proxy = Direct]

\* execute_with_proxy_rotation is called: the direct call of func comes first
T_Begin(t) ==
    /\ threads[t].pc = "idle"
    /\ Step(t, [IdleThread EXCEPT !.pc = "session"])
    /\ UNCHANGED <<poolVars, session_proxies>>

\* `if proxy_str in self.used_proxies: continue`, else func is called and
\* get_transcript sets or clears the proxies of the shared session
T_Session(t) ==
    /\ threads[t].pc = "session"
    /\ IF threads[t].proxy # Direct /\ threads[t].proxy \in used_proxies
       THEN /\ Step(t, [threads[t] EXCEPT !.pc = "get_proxy", !.proxy = Direct])
            /\ UNCHANGED session_proxies
       ELSE /\ Step(t, [threads[t] EXCEPT !.pc = "page"])
            /\ session_proxies' = SessionAfter(threads[t].proxy)
    /\ UNCHANGED poolVars

\* the call of func is over: a success adds the proxy to used_proxies and
\* returns, a failure counts a retry (the direct one sets retries to 0)
EndAttempt(t, ok) ==
    IF ok
    THEN /\ Step(t, IdleThread)
         /\ used_proxies' = IF threads[t].proxy # Direct THEN used_proxies \cup {threads[t].proxy} ELSE used_proxies
         /\ UNCHANGED <<proxies, last_refresh, current_index, session_proxies>>
    ELSE /\ Step(t, AfterFailure(threads[t], IF threads[t].proxy = Direct THEN 0 ELSE threads[t].retries + 1))
         /\ UNCHANGED <<poolVars, session_proxies>>

\* self.session.get(url): the request for the video page, sent through the
\* proxies the session holds now
T_Page(t) ==
    /\ threads[t].pc = "page"
    /\ \E page_ok \in BOOLEAN :
          IF page_ok
          THEN /\ Step(t, [threads[t] EXCEPT !.pc = "captions"])
               /\ UNCHANGED <<poolVars, session_proxies>>
          ELSE \E fallback_ok \in BOOLEAN : EndAttempt(t, fetch_transcript_with_proxy(FALSE, fallback_ok))

\* self.session.get(caption_url): the request for the caption track
T_Captions(t) ==
    /\ threads[t].pc = "captions"
    /\ \E custom_ok, fallback_ok \in BOOLEAN : EndAttempt(t, fetch_transcript_with_proxy(custom_ok, fallback_ok))

\* get_proxy: `if time.time() - self.last_refresh > self.refresh_interval`
T_Stale(t) ==
    /\ threads[t].pc = "get_proxy"
    /\ Step(t, [threads[t] EXCEPT !.pc = IF clock - last_refresh > refresh_interval THEN "refresh" ELSE "select"])
    /\ UNCHANGED <<poolVars, session_proxies>>

\* refresh_proxies: `self.proxies = unique_proxies`, or the backup list
\* when the sources gave nothing
T_RefreshProxies(t) ==
    /\ threads[t].pc = "refresh"
    /\ \E in \in ConcInputs :
          /\ proxies' = refresh_proxies(Self, in, clock).proxies
          /\ Step(t, [threads[t] EXCEPT !.pc = IF in.order # <<>> THEN "reset_used" ELSE "select"])
    /\ UNCHANGED <<last_refresh, current_index, used_proxies, session_proxies>>

\* `self.used_proxies = set()`
T_ResetUsed(t) ==
    /\ threads[t].pc = "reset_used"
    /\ used_proxies' = {}
    /\ Step(t, [threads[t] EXCEPT !.pc = "reset_index"])
    /\ UNCHANGED <<proxies, last_refresh, current_index, session_proxies>>

\* `self.current_index = 0`
T_ResetIndex(t) ==
    /\ threads[t].pc = "reset_index"
    /\ current_index' = 0
    /\ Step(t, [threads[t] EXCEPT !.pc = "set_time"])
    /\ UNCHANGED <<proxies, last_refresh, used_proxies, session_proxies>>

\* `self.last_refresh = time.time()`
T_SetTime(t) ==
    /\ threads[t].pc = "set_time"
    /\ last_refresh' = clock
    /\ Step(t, [threads[t] EXCEPT !.pc = "select"])
    /\ UNCHANGED <<proxies, current_index, used_proxies, session_proxies>>

\* `proxy = self.proxies[self.current_index]`; an IndexError ends the
\* invocation
T_Select(t) ==
    /\ threads[t].pc = "select"
    /\ IF current_index < Len(proxies)
       THEN Step(t, [threads[t] EXCEPT !.pc = "read_index", !.proxy = proxies[current_index + 1]])
       ELSE Step(t, IdleThread)
    /\ UNCHANGED <<poolVars, session_proxies>>

\* `self.current_index = (self.current_index + 1) % len(self.proxies)`:
\* the read of the cursor
T_ReadIndex(t) ==
    /\ threads[t].pc = "read_index"
    /\ Step(t, [threads[t] EXCEPT !.pc = "store_index", !.idx = current_index])
    /\ UNCHANGED <<poolVars, session_proxies>>

\* the same statement: the write of the cursor
T_StoreIndex(t) ==
    /\ threads[t].pc = "store_index"
    /\ current_index' = (threads[t].idx + 1) % Len(proxies)
    /\ Step(t, [threads[t] EXCEPT !.pc = "session", !.idx = 0])
    /\ UNCHANGED <<proxies, last_refresh, used_proxies, session_proxies>>

Begin == \E t \in Threads : T_Begin(t)
SetSession == \E t \in Threads : T_Session(t)
RequestPage == \E t \in Threads : T_Page(t)
RequestCaptions == \E t \in Threads : T_Captions(t)
CheckStale == \E t \in Threads : T_Stale(t)
RefreshProxies == \E t \in Threads : T_RefreshProxies(t)
ResetUsed == \E t \in Threads : T_ResetUsed(t)
ResetIndex == \E t \in Threads : T_ResetIndex(t)
SetTime == \E t \in Threads : T_SetTime(t)
Select == \E t \in Threads : T_Select(t)
ReadIndex == \E t \in Threads : T_ReadIndex(t)
StoreIndex == \E t \in Threads : T_StoreIndex(t)

ConcNext == Begin \/ SetSession \/ RequestPage \/ RequestCaptions \/ CheckStale \/ RefreshProxies \/ ResetUsed \/ ResetIndex \/ SetTime \/ Select \/ ReadIndex \/ StoreIndex

ConcSpec == ConcInit /\ [][ConcNext]_vars

(* ------------------------- extract_video_id --------------------------- *)
(* A URL is the sequence of its lexemes: "https://", a host name, "/",     *)
(* "?", "&", "=" and words.  The empty string is the empty sequence.       *)

\* the words a URL is made of; the characters of IdWords are alphanumerics,
\* '_' and '-', "a.b" holds a character that is none of them
IdWords == {"watch", "v", "embed", "t", "abc"}
PathWords == {"watch", "v", "embed", "abc", "a.b"}
NetLocs == {"youtube.com", "www.youtube.com", "youtu.be", "example.com"}

\* the paths up to MaxPath lexemes: slashes and words, no two words in a row
Paths == UNION {{p \in [1..n -> PathWords \cup {"/"}] : \A i \in 1..(n - 1) : p[i] = "/" \/ p[i + 1] = "/"} : n \in 0..MaxPath}

\* one query parameter: v with a value, v with an empty value, another one
QueryParams == {<<"v", "=", "abc">>, <<"v", "=">>, <<"t", "=", "abc">>}

\* the text after "?": up to MaxParams parameters joined by "&"
Queries == {<<>>} \cup QueryParams \cup (IF MaxParams >= 2 THEN {a \o <<"&">> \o b : a, b \in QueryParams} ELSE {})

\* the URLs given to extract_video_id: with or without scheme and host,
\* with or without a query
Urls == {h \o p \o q : h \in {<<>>} \cup {<<"https://", n>> : n \in NetLocs}, p \in Paths, q \in {<<>>} \cup {<<"?">> \o x : x \in Queries}}

\* the position of the first lexeme of s that is in S, Len(s) + 1 if none
FirstIn(s, S) == IF \E i \in 1..Len(s) : s[i] \in S THEN CHOOSE i \in 1..Len(s) : s[i] \in S /\ \A j \in 1..(i - 1) : s[j] \notin S ELSE Len(s) + 1

\* urllib.parse.urlparse: the host runs from "//" to the first "/" or "?",
\* the path to the first "?", the query is what follows
urlparse(u) ==
    LET has_netloc == u # <<>> /\ u[1] = "https://"
        rest == IF has_netloc THEN Tail(u) ELSE u
        n == IF has_netloc THEN FirstIn(rest, {"/", "?"}) ELSE 1
        tail == SubSeq(rest, n, Len(rest))
        q == FirstIn(tail, {"?"})
    IN  [netloc |-> SubSeq(rest, 1, n - 1), path |-> SubSeq(tail, 1, q - 1), query |-> SubSeq(tail, q + 1, Len(tail))]

RECURSIVE split(_, _)
\* str.split(sep)
split(s, sep) == IF FirstIn(s, {sep}) > Len(s) THEN <<s>> ELSE <<SubSeq(s, 1, FirstIn(s, {sep}) - 1)>> \o split(SubSeq(s, FirstIn(s, {sep}) + 1, Len(s)), sep)

\* urllib.parse.parse_qs: the (name, value) pairs in order; a parameter
\* without "=" or with an empty value is dropped
parse_qs(query) ==
    LET fields == SelectSeq(split(query, "&"), LAMBDA f : FirstIn(f, {"="}) < Len(f))
    IN  [i \in 1..Len(fields) |-> [name |-> SubSeq(fields[i], 1, FirstIn(fields[i], {"="}) - 1), value |-> SubSeq(fields[i], FirstIn(fields[i], {"="}) + 1, Len(fields[i]))]]

\* parse_qs(query).get(key, [''])[0]
first_value(query, key) ==
    LET values == SelectSeq(parse_qs(query), LAMBDA f : f.name = <<key>>)
    IN  IF values = <<>> THEN <<>> ELSE values[1].value

RECURSIVE lstrip(_, _)
\* str.lstrip(chars)
lstrip(s, c) == IF s # <<>> /\ s[1] = c THEN lstrip(Tail(s), c) ELSE s

\* str.startswith for a prefix given as lexemes
startswith(s, prefix) == Len(s) >= Len(prefix) /\ SubSeq(s, 1, Len(prefix)) = prefix

\* len(url.split()) == 1 and all(c.isalnum() or c == '_' or c == '-' for c in url)
bare_id(u) == u # <<>> /\ \A i \in 1..Len(u) : u[i] \in IdWords

\* extract_video_id
extract_video_id(u) ==
    LET parsed_url == urlparse(u)
    IN  IF parsed_url.netloc \in {<<"youtube.com">>, <<"www.youtube.com">>} /\ parsed_url.path = <<"/", "watch">>
        THEN ReturnId(first_value(parsed_url.query, "v"))
        ELSE IF parsed_url.netloc = <<"youtu.be">>
        THEN ReturnId(lstrip(parsed_url.path, "/"))
        ELSE IF startswith(parsed_url.path, <<"/", "v", "/">>)
        THEN ReturnId(split(parsed_url.path, "/")[3])
        ELSE IF startswith(parsed_url.path, <<"/", "embed", "/">>)
        THEN ReturnId(split(parsed_url.path, "/")[3])
        ELSE IF bare_id(u)
        THEN ReturnId(u)
        ELSE InvalidUrl(u)

\* a URL arrives; nothing else of the program is running
UrlInit ==
    /\ Started
    /\ url \in Urls
    /\ video_id = NotCalled
    /\ NoTracks
    /\ NoPayload
    /\ NoTopicsCall
    /\ NoHttp

\* video_id = extract_video_id(url)
ExtractVideoId ==
    /\ video_id = NotCalled
    /\ video_id' = extract_video_id(url)
    /\ UNCHANGED <<programVars, url, trackVars, decodeVars, topics, http_response>>

UrlNext == ExtractVideoId

UrlSpec == UrlInit /\ [][UrlNext]_vars

(* --------------------- the choice of a caption track ------------------ *)
(* Two classes resolve the caption track of a video page:                  *)
(* ProxyEnabledTranscriptFetcher.get_transcript (yt_transcript_proxy, the  *)
(* one _fetch_transcript_with_proxy calls) and                             *)
(* YouTubeTranscriptFetcher.fetch_transcript (youtube_handler).            *)

LanguageCodes == {"en", "fr", "es"}

\* captionTracks: up to MaxTracks tracks, each with its language code and
\* its own baseUrl
TrackLists == UNION {{[i \in 1..n |-> [languageCode |-> l[i], baseUrl |-> i]] : l \in [1..n -> LanguageCodes]} : n \in 0..MaxTracks}

\* ytInitialPlayerResponse as far as the resolvers read it: which of the
\* keys 'captions', 'playerCaptionsTracklistRenderer' and 'captionTracks'
\* it holds, and the tracks
PlayerResponses == {[captions |-> c, renderer |-> r, has_tracks |-> h, captionTracks |-> t] : c, r, h \in BOOLEAN, t \in TrackLists}

TrackFound(track) == [kind |-> "return", track |-> track]

\* raise Exception("No captions found for this video") and its variants
NoCaptions == [kind |-> "raise", track |-> [languageCode |-> "", baseUrl |-> 0]]

\* ProxyEnabledTranscriptFetcher.get_transcript, lines 61-71
get_transcript_caption_track(pr) ==
    IF ~pr.captions \/ ~pr.renderer THEN NoCaptions
    ELSE IF ~pr.has_tracks \/ pr.captionTracks = <<>> THEN NoCaptions
    ELSE TrackFound(pr.captionTracks[1])

\* YouTubeTranscriptFetcher.fetch_transcript, lines 52-72
fetch_transcript_caption_track(pr) ==
    IF ~pr.captions \/ ~pr.renderer THEN NoCaptions
    ELSE IF ~pr.has_tracks \/ pr.captionTracks = <<>> THEN NoCaptions
    ELSE IF \E i \in 1..Len(pr.captionTracks) : pr.captionTracks[i].languageCode = "en"
    THEN TrackFound(pr.captionTracks[CHOOSE i \in 1..Len(pr.captionTracks) : pr.captionTracks[i].languageCode = "en" /\ \A j \in 1..(i - 1) : pr.captionTracks[j].languageCode # "en"])
    ELSE TrackFound(pr.captionTracks[1])

\* a video page has been fetched
TrackInit ==
    /\ Started
    /\ NoUrl
    /\ player_response \in PlayerResponses
    /\ caption_track = NoTrack
    /\ NoPayload
    /\ NoTopicsCall
    /\ NoHttp

\* get_transcript resolves the track
GetTranscriptTrack ==
    /\ caption_track.get_transcript = NotCalled
    /\ caption_track' = [caption_track EXCEPT !.get_transcript = get_transcript_caption_track(player_response)]
    /\ UNCHANGED <<programVars, urlVars, player_response, decodeVars, topics, http_response>>

\* fetch_transcript resolves the track
FetchTranscriptTrack ==
    /\ caption_track.fetch_transcript = NotCalled
    /\ caption_track' = [caption_track EXCEPT !.fetch_transcript = fetch_transcript_caption_track(player_response)]
    /\ UNCHANGED <<programVars, urlVars, player_response, decodeVars, topics, http_response>>

TrackNext == GetTranscriptTrack \/ FetchTranscriptTrack

TrackSpec == TrackInit /\ [][TrackNext]_vars

(* ------------------- the decoding of the caption data ----------------- *)
(* The json3 payload of a caption track is decoded by the same two         *)
(* classes.  A text is the sequence of its characters.                     *)

\* the utf8 values of a sub-segment: the empty text, a letter, a blank
Texts == {<<>>, <<"a">>, <<" ">>}

\* a sub-segment, with or without the key 'utf8'
Segs == {[has_utf8 |-> FALSE, utf8 |-> <<>>]} \cup {[has_utf8 |-> TRUE, utf8 |-> t] : t \in Texts}

\* an event: with or without 'segs' (up to MaxSegs of them), 'tStartMs' and
\* 'dDurationMs'
Events ==
    {[has_segs |-> hs, segs |-> sg, has_tStartMs |-> ht, tStartMs |-> t, has_dDurationMs |-> hd, dDurationMs |-> d] :
        hs \in BOOLEAN, sg \in UNION {[1..n -> Segs] : n \in 0..MaxSegs}, ht \in BOOLEAN, t \in {0, 1500}, hd \in BOOLEAN, d \in {0, 2500}}

\* the payloads: without the key 'events', or with up to MaxEvents events
\* (a key that is absent has no value)
TranscriptData ==
    {[has_events |-> FALSE, events |-> <<>>]} \cup
    {[has_events |-> TRUE, events |-> e] : e \in UNION {[1..n -> {x \in Events : (~x.has_segs => x.segs = <<>>) /\ (~x.has_tStartMs => x.tStartMs = 0) /\ (~x.has_dDurationMs => x.dDurationMs = 0) /\ (x.has_dDurationMs => x.dDurationMs # 0)}] : n \in 0..MaxEvents}}

RECURSIVE join(_, _)
\* sep.join(parts)
join(parts, sep) == IF parts = <<>> THEN <<>> ELSE IF Len(parts) = 1 THEN parts[1] ELSE parts[1] \o sep \o join(Tail(parts), sep)

RECURSIVE rstrip(_, _)
\* str.rstrip(chars)
rstrip(s, c) == IF s # <<>> /\ s[Len(s)] = c THEN rstrip(SubSeq(s, 1, Len(s) - 1), c) ELSE s

\* str.strip()
strip(s) == rstrip(lstrip(s, " "), " ")

\* [seg['utf8'] for seg in event['segs'] if 'utf8' in seg]
utf8_parts(event) == [i \in 1..Len(SelectSeq(event.segs, LAMBDA seg : seg.has_utf8)) |-> SelectSeq(event.segs, LAMBDA seg : seg.has_utf8)[i].utf8]

\* milliseconds / 1000: the seconds and the thousandths of the quotient
Seconds(ms) == [s |-> ms \div 1000, thousandths |-> ms % 1000]

Decoded(segments) == [kind |-> "return", segments |-> segments]

\* raise Exception("Could not parse any transcript segments from the data")
EmptyTranscript == [kind |-> "raise", segments |-> <<>>]

RECURSIVE get_transcript_segments(_)
\* ProxyEnabledTranscriptFetcher.get_transcript, the loop of lines 92-101
get_transcript_segments(events) ==
    IF events = <<>> THEN <<>>
    ELSE LET event == Head(events)
             text == join(utf8_parts(event), <<>>)
         IN  (IF event.has_segs /\ event.has_tStartMs /\ text # <<>>
              THEN <<[text |-> strip(text), start |-> Seconds(event.tStartMs), duration |-> IF event.has_dDurationMs THEN Seconds(event.dDurationMs) ELSE Seconds(0)]>>
              ELSE <<>>) \o get_transcript_segments(Tail(events))

\* ProxyEnabledTranscriptFetcher.get_transcript, lines 88-106
get_transcript_decode(data) ==
    LET transcript_segments == IF data.has_events THEN get_transcript_segments(data.events) ELSE <<>>
    IN  IF transcript_segments = <<>> THEN EmptyTranscript ELSE Decoded(transcript_segments)

RECURSIVE fetch_transcript_segments(_)
\* YouTubeTranscriptFetcher.fetch_transcript, the loop of lines 87-102
fetch_transcript_segments(events) ==
    IF events = <<>> THEN <<>>
    ELSE LET event == Head(events)
             text_parts == utf8_parts(event)
         IN  (IF event.has_segs /\ text_parts # <<>>
              THEN <<[text |-> strip(join(text_parts, <<" ">>)), start |-> Seconds(IF event.has_tStartMs THEN event.tStartMs ELSE 0), duration |-> Seconds(IF event.has_dDurationMs THEN event.dDurationMs ELSE 0)]>>
              ELSE <<>>) \o fetch_transcript_segments(Tail(events))

\* YouTubeTranscriptFetcher.fetch_transcript, lines 83-106
fetch_transcript_decode(data) ==
    LET formatted_transcript == IF data.has_events THEN fetch_transcript_segments(data.events) ELSE <<>>
    IN  IF formatted_transcript = <<>> THEN EmptyTranscript ELSE Decoded(formatted_transcript)

\* the payload of a caption track has been fetched
DecodeInit ==
    /\ Started
    /\ NoUrl
    /\ NoTracks
    /\ transcript_data \in TranscriptData
    /\ transcript = NoTranscript
    /\ NoTopicsCall
    /\ NoHttp

\* get_transcript decodes the payload
GetTranscriptDecode ==
    /\ transcript.get_transcript = NotDecoded
    /\ transcript' = [transcript EXCEPT !.get_transcript = get_transcript_decode(transcript_data)]
    /\ UNCHANGED <<programVars, urlVars, trackVars, transcript_data, topics, http_response>>

\* fetch_transcript decodes the payload
FetchTranscriptDecode ==
    /\ transcript.fetch_transcript = NotDecoded
    /\ transcript' = [transcript EXCEPT !.fetch_transcript = fetch_transcript_decode(transcript_data)]
    /\ UNCHANGED <<programVars, urlVars, trackVars, transcript_data, topics, http_response>>

DecodeNext == GetTranscriptDecode \/ FetchTranscriptDecode

DecodeSpec == DecodeInit /\ [][DecodeNext]_vars

(* ---------------------- generate_topic_timestamps --------------------- *)
(* The content of a completion is the sequence of its lexemes: "[", "]",   *)
(* the JSON object "{}" and text that is not JSON.                         *)

ContentTokens == {"[", "]", "{}", "text"}

\* response.choices[0].message.content.strip(), up to MaxContent lexemes
Contents == UNION {[1..n -> ContentTokens] : n \in 0..MaxContent}

\* client.chat.completions.create raises
ApiError == <<"APIError">>

\* what a completion call can give
Completions == Contents \cup {ApiError}

\* the position of the last lexeme of s that is tok, 0 if none
LastIn(s, tok) == IF \E i \in 1..Len(s) : s[i] = tok THEN CHOOSE i \in 1..Len(s) : s[i] = tok /\ \A j \in (i + 1)..Len(s) : s[j] # tok ELSE 0

\* content.find('[') >= 0 and content.rfind(']') > content.find('[')
bracketed(content) == FirstIn(content, {"["}) <= Len(content) /\ LastIn(content, "]") > FirstIn(content, {"["})

\* content[content.find('['):content.rfind(']')+1]
json_str(content) == SubSeq(content, FirstIn(content, {"["}), LastIn(content, "]"))

RECURSIVE json_loads(_)
\* json.loads(s) returns (TRUE) or raises JSONDecodeError (FALSE): the JSON
\* texts are the object "{}", the empty array and the array of one JSON text
json_loads(s) ==
    \/ s = <<"{}">>
    \/ /\ Len(s) >= 2
       /\ s[1] = "["
       /\ s[Len(s)] = "]"
       /\ Len(s) = 2 \/ json_loads(SubSeq(s, 2, Len(s) - 1))

Topics(v) == [kind |-> "return", value |-> v, cause |-> ""]

\* [{"error": "Could not parse topics from AI response"}]
ParseErrorMarker == [kind |-> "return", value |-> <<"Could not parse topics from AI response">>, cause |-> ""]

\* raise Exception(f"Error generating topic timestamps: {str(e)}")
TopicsError(cause) == [kind |-> "raise", value |-> <<>>, cause |-> cause]

\* generate_topic_timestamps is called
TopicsInit ==
    /\ Started
    /\ NoUrl
    /\ NoTracks
    /\ NoPayload
    /\ topics = [pc |-> "call", responses |-> <<>>, result |-> NoTopics]
    /\ NoHttp

\* the first completion call and the parsing of its content, lines 95-115
FirstCompletion ==
    /\ topics.pc = "call"
    /\ \E response \in Completions :
          topics' = [responses |-> <<response>>,
                     pc |-> IF response = ApiError \/ json_loads(IF bracketed(response) THEN json_str(response) ELSE response) THEN "done" ELSE "retry",
                     result |-> IF response = ApiError THEN TopicsError("APIError")
                                ELSE IF json_loads(IF bracketed(response) THEN json_str(response) ELSE response)
                                THEN Topics(IF bracketed(response) THEN json_str(response) ELSE response)
                                ELSE NoTopics]
    /\ UNCHANGED <<programVars, urlVars, trackVars, decodeVars, http_response>>

\* the handler of json.JSONDecodeError, lines 116-131: the second call; a
\* JSONDecodeError raised here is caught by the outer `except Exception`
RetryCompletion ==
    /\ topics.pc = "retry"
    /\ \E response \in Completions :
          topics' = [responses |-> Append(topics.responses, response),
                     pc |-> "done",
                     result |-> IF response = ApiError THEN TopicsError("APIError")
                                ELSE IF bracketed(response)
                                THEN (IF json_loads(json_str(response)) THEN Topics(json_str(response)) ELSE TopicsError("JSONDecodeError"))
                                ELSE ParseErrorMarker]
    /\ UNCHANGED <<programVars, urlVars, trackVars, decodeVars, http_response>>

TopicsNext == FirstCompletion \/ RetryCompletion

TopicsSpec == TopicsInit /\ [][TopicsNext]_vars

(* ---------------------------- the endpoints --------------------------- *)
\* the routes of main.py that take a url
Endpoints == {"/transcript", "/text", "/summary", "/tags", "/topics"}

\* the routes that hand the transcript to a function of ai_utils
Analysed == {"/summary", "/tags", "/topics"}

\* get_transcript returns, or raises the plain Exception it wraps every
\* failure of the rotation in; get_transcript_text adds a join of the texts
GetTranscriptOutcomes == {"ok", "Exception"}

\* generate_summary, generate_tags and generate_topic_timestamps return, or
\* raise the plain Exception they wrap every failure in
GenerateOutcomes == {"ok", "Exception"}

\* what the client receives: the body on 200, HTTPException otherwise; with
\* how far the handler got
Answer(e, status, fetch, generate) ==
    [endpoint |-> e, status_code |-> status, get_transcript |-> fetch, generate |-> generate]

\* the handler without its `except ValueError` clause
endpoint_one_except(e, u, fetch, generate) ==
    IF extract_video_id(u).kind = "raise" THEN Answer(e, 500, "none", "none")
    ELSE IF fetch = "Exception" THEN Answer(e, 500, "Exception", "none")
    ELSE IF e \in Analysed /\ generate = "Exception" THEN Answer(e, 500, "ok", "Exception")
    ELSE Answer(e, 200, "ok", IF e \in Analysed THEN "ok" ELSE "none")

\* the body of every handler: extract_video_id, then the transcript, then for
\* the analysing routes the function of ai_utils; `except ValueError` answers
\* 400 and `except Exception` answers 500
endpoint(e, u, fetch, generate) ==
    IF extract_video_id(u).kind = "raise" THEN Answer(e, 400, "none", "none")
    ELSE IF fetch = "Exception" THEN Answer(e, 500, "Exception", "none")
    ELSE IF e \in Analysed /\ generate = "Exception" THEN Answer(e, 500, "ok", "Exception")
    ELSE Answer(e, 200, "ok", IF e \in Analysed THEN "ok" ELSE "none")

\* a request with a url arrives; nothing else of the program is running
EndpointInit ==
    /\ Started
    /\ url \in Urls
    /\ video_id = NotCalled
    /\ NoTracks
    /\ NoPayload
    /\ NoTopicsCall
    /\ NoHttp

\* the request is handled by the route e
Request(e) ==
    /\ http_response = NoRequest
    /\ video_id' = extract_video_id(url)
    /\ \E fetch \in GetTranscriptOutcomes, generate \in GenerateOutcomes :
          http_response' = endpoint(e, url, fetch, generate)
    /\ UNCHANGED <<programVars, url, trackVars, decodeVars, topics>>

get_video_transcript == Request("/transcript")

get_video_transcript_text == Request("/text")

get_video_summary == Request("/summary")

get_video_tags == Request("/tags")

get_video_topics == Request("/topics")

EndpointNext ==
    \/ get_video_transcript
    \/ get_video_transcript_text
    \/ get_video_summary
    \/ get_video_tags
    \/ get_video_topics

EndpointSpec == EndpointInit /\ [][EndpointNext]_vars

(* ------------------------------ claims -------------------------------- *)
\* the endpoints of the proxy attempts of this invocation, in order
ProxyAttempts == SelectSeq(attempts, LAMBDA a : a.via # Direct)

FailedProxyAttempts == SelectSeq(attempts, LAMBDA a : a.via # Direct /\ ~a.ok)

\* the i-th endpoint in rotation order, counted from the cursor the
\* invocation started with
Rotation(i) == proxies[((start_index + i - 1) % Len(proxies)) + 1]

\* C1: every fetch invocation terminates: an invocation that is in its
\* retry loop eventually leaves it, whatever the pool and its per-session
\* set hold.
C1_Terminates == (pc = "loop") ~> (pc = "idle")

\* C2: whenever the pool is non-empty the rotation cursor is strictly less
\* than the pool size.
C2_CursorInRange == proxies # <<>> => current_index < Len(proxies)

\* C3: a refresh() that obtains no candidate leaves the pool contents, the
\* cursor, the failed-set and the last-refresh time unchanged (the pool has
\* been populated since construction).
C3_FailedRefreshKeepsPool == [][(lastOp'.op = "refresh" /\ lastOp'.refreshed = "empty") => UNCHANGED poolVars]_vars

\* C4: after a refresh() that obtained at least one candidate, the pool holds
\* exactly the candidates, each once, the cursor is 0, the failed-set is
\* empty and the last-refresh time is the time of the refresh.
C4_RefreshInstalls ==
    (lastOp.op = "refresh" /\ lastOp.got # {}) =>
        /\ Range(proxies) = lastOp.got
        /\ NoDup(proxies)
        /\ current_index = 0
        /\ used_proxies = {}
        /\ last_refresh = clock

\* a refresh that dropped repeated candidates has just installed a pool of
\* two or more endpoints
C4_Witness == lastOp.op = "refresh" /\ lastOp.refreshed = "ok" /\ Len(proxies) >= 2 /\ lastOp.n > Len(proxies)

\* C5: with a pool of n endpoints and no refresh in between, every next()
\* call returns an endpoint, consecutive calls return consecutive endpoints
\* of the pool (cyclically), n calls return n distinct endpoints and the
\* (n+1)-th returns the first of them again.
C5_RoundRobin ==
    /\ (lastOp.op \in {"get_proxy", "iterate"} /\ lastOp.refreshed = "no") => lastOp.ret.tag = "Some"
    /\ \A i \in 1..Len(served) : \E j \in 1..Len(proxies) :
          /\ served[i] = proxies[j]
          /\ i < Len(served) => served[i + 1] = proxies[(j % Len(proxies)) + 1]
    /\ \A i, j \in 1..Len(served) : (i < j /\ j - i < Len(proxies)) => served[i] # served[j]
    /\ Len(served) = Len(proxies) + 1 => served[Len(served)] = served[1]

\* C6: the first attempt of an invocation is made with no proxy and leaves
\* the pool as it is; when it succeeds the invocation is over and returns its
\* result; proxies are only attempted after it.
C6_DirectFirst ==
    /\ [](attempts # <<>> => (attempts[1].via = Direct /\ \A i \in 2..Len(attempts) : attempts[i].via # Direct))
    /\ [](pc = "loop" => (attempts # <<>> /\ ~attempts[1].ok))
    /\ [][lastOp'.op = "direct" =>
            /\ Len(attempts') = 1
            /\ session_proxies' = {}
            /\ UNCHANGED poolVars
            /\ attempts'[1].ok => (pc' = "idle" /\ result' = Returned(Direct))]_vars

\* a direct attempt has just succeeded while the pool is in the middle of
\* its rotation and holds a known proxy
C6_Witness == lastOp.op = "direct" /\ pc = "idle" /\ result.kind = "return" /\ current_index > 0 /\ used_proxies # {}

\* C7: when the direct connection fails and the k-th proxy in rotation
\* order is the one that succeeds (no proxy both fails and succeeds, the
\* pool is not refreshed meanwhile, k within the retry bound), the
\* invocation makes exactly k+1 attempts: the direct one, then proxies 1..k
\* in rotation order.
C7_KthProxy ==
    (/\ pc = "idle" /\ result.kind = "return" /\ result.used_proxy # Direct
     /\ ~inv_refreshed
     /\ start_index < Len(proxies)
     /\ \A i \in 1..Len(attempts) : ~attempts[i].ok => attempts[i].via # result.used_proxy)
    => \E k \in 1..Len(proxies) :
          /\ Rotation(k) = result.used_proxy
          /\ \A i \in 1..(k - 1) : Rotation(i) # result.used_proxy
          /\ k <= max_retries =>
                /\ Len(attempts) = k + 1
                /\ \A i \in 1..k : attempts[i + 1].via = Rotation(i)

\* C8: when every attempt fails, the raised failure carries the error of
\* every attempt, the direct one first, in attempt order.
C8_ErrorTrail ==
    (pc = "idle" /\ result.kind = "raise") =>
        result.carried = [i \in 1..Len(attempts) |-> Err(attempts[i].via)]

\* C9: within one invocation no proxy endpoint is attempted more than once,
\* and every endpoint that failed is in the pool's failed-set as long as no
\* refresh has cleared it.
C9_NoRepeat ==
    /\ NoDup(ProxyAttempts)
    /\ ~inv_refreshed => \A i \in 1..Len(FailedProxyAttempts) : FailedProxyAttempts[i].via \in used_proxies

\* C10: an invocation makes at most max_retries proxy attempts and at most
\* 1 + max_retries attempts; the retry counter is the number of failed proxy
\* attempts: it grows by one with each of them and stays as it is when a
\* candidate is skipped or succeeds.
C10_RetryBound ==
    /\ [](Len(ProxyAttempts) <= max_retries /\ Len(attempts) <= 1 + max_retries)
    /\ [](attempts # <<>> => retries = Len(FailedProxyAttempts))
    /\ [][lastOp'.op = "iterate" =>
            IF Len(attempts') = Len(attempts) + 1 /\ ~attempts'[Len(attempts')].ok
            THEN retries' = retries + 1
            ELSE retries' = retries]_vars

\* the retry loop has run out after max_retries failed proxy attempts, one
\* candidate having been seen more than once
C10_Witness == lastOp.op = "exhausted" /\ result.kind = "raise" /\ retries = max_retries /\ Len(attempts) = 1 + max_retries /\ ~NoDup(ProxyAttempts)

\* C11: once an attempt of an invocation has failed because the video has
\* no caption tracks, the invocation stops: the retry loop runs no further
\* iteration, so no further proxy is taken from the pool and no further
\* attempt is made.
C11_NoCaptionsStops == [][no_captions => lastOp'.op # "iterate"]_vars

\* thread t is inside a call of get_proxy or refresh_proxies, between its
\* first and its last read or write of the pool
Between(t) == threads[t].pc \in {"reset_used", "reset_index", "set_time", "read_index", "store_index"}

\* the positions from which a thread reads or writes the pool next
PoolSteps == {"refresh", "reset_used", "reset_index", "set_time", "select", "read_index", "store_index"}

\* C12: when several invocations run at once, next() and refresh() exclude
\* each other: no call reads or writes the pool while another call is
\* between its own read and write of it, and no cursor advance is lost
\* (every call that returned an endpoint leaves the cursor one further,
\* modulo the pool size, than it was just before its write).
C12_MutualExclusion ==
    /\ [][\A t, u \in Threads : (t # u /\ Between(u) /\ threads[t].pc \in PoolSteps) => threads'[t] = threads[t]]_vars
    /\ [][\A t \in Threads : (threads[t].pc = "store_index" /\ threads'[t].pc = "session") => current_index' = (current_index + 1) % Len(proxies)]_vars

\* C13: invocations running at once share nothing mutable but the pool:
\* each HTTP request of an attempt is sent through the endpoint chosen for
\* that attempt (through none for the direct attempt), whatever another
\* invocation has set or cleared meanwhile.
C13_OwnEndpoint == [][\A t \in Threads : (threads[t].pc \in {"page", "captions"} /\ threads'[t] # threads[t]) => session_proxies = SessionAfter(threads[t].proxy)]_vars

\* C14: next() runs refresh() before selecting exactly when more than the
\* refresh interval has passed since the last refresh (or the pool is
\* empty); it returns None only when the pool is still empty after that;
\* otherwise it returns the endpoint at the cursor and advances the cursor
\* by one modulo the pool size.
C14_NextSemantics ==
    [][lastOp'.op \in {"get_proxy", "iterate"} =>
         LET cursor == IF lastOp'.refreshed = "ok" THEN 0 ELSE current_index
         IN  /\ lastOp'.refreshed # "no" <=> (clock - last_refresh > refresh_interval \/ proxies = <<>>)
             /\ lastOp'.ret.tag = "None" => proxies' = <<>>
             /\ lastOp'.ret.tag # "None" =>
                   /\ lastOp'.ret.tag = "Some"
                   /\ cursor < Len(proxies')
                   /\ lastOp'.ret.dict = ProxyDict(proxies'[cursor + 1])
                   /\ current_index' = (cursor + 1) % Len(proxies')]_vars

\* C15: extract_video_id never returns an empty identifier; a watch URL
\* without a v parameter, or with an empty one, is rejected with InvalidUrl.
C15_NoEmptyId ==
    /\ video_id.kind = "return" => video_id.value # <<>>
    /\ (/\ video_id # NotCalled
        /\ urlparse(url).netloc \in {<<"youtube.com">>, <<"www.youtube.com">>}
        /\ urlparse(url).path = <<"/", "watch">>
        /\ first_value(urlparse(url).query, "v") = <<>>) => video_id = InvalidUrl(url)

\* the accepted forms of a URL, each with a non-empty identifier in it
WatchForm(u) == urlparse(u).netloc \in {<<"youtube.com">>, <<"www.youtube.com">>} /\ urlparse(u).path = <<"/", "watch">> /\ first_value(urlparse(u).query, "v") # <<>>
ShortForm(u) == urlparse(u).netloc = <<"youtu.be">> /\ lstrip(urlparse(u).path, "/") # <<>>
VForm(u) == startswith(urlparse(u).path, <<"/", "v", "/">>) /\ split(urlparse(u).path, "/")[3] # <<>>
EmbedForm(u) == startswith(urlparse(u).path, <<"/", "embed", "/">>) /\ split(urlparse(u).path, "/")[3] # <<>>
BareForm(u) == u # <<>> /\ \A i \in 1..Len(u) : u[i] \in IdWords

\* C16: extract_video_id returns exactly the identifier ID of its input
\* for each accepted form (watch?v=ID, youtu.be/ID, /v/ID, /embed/ID, a
\* bare ID), the forms being tried in that order and the first match
\* winning; an input that matches none of the forms is rejected with
\* InvalidUrl carrying the original input.
C16_Forms ==
    video_id # NotCalled =>
        IF WatchForm(url) THEN video_id = ReturnId(first_value(urlparse(url).query, "v"))
        ELSE IF ShortForm(url) THEN video_id = ReturnId(lstrip(urlparse(url).path, "/"))
        ELSE IF VForm(url) \/ EmbedForm(url) THEN video_id = ReturnId(split(urlparse(url).path, "/")[3])
        ELSE IF BareForm(url) THEN video_id = ReturnId(url)
        ELSE video_id = InvalidUrl(url)

\* the track the resolver is to choose: the first one in English, the
\* first one when none is in English, NoCaptions when there is none
PreferredTrack(pr) ==
    IF ~pr.captions \/ ~pr.renderer \/ ~pr.has_tracks \/ pr.captionTracks = <<>> THEN NoCaptions
    ELSE IF \E i \in 1..Len(pr.captionTracks) : pr.captionTracks[i].languageCode = "en"
    THEN TrackFound(pr.captionTracks[CHOOSE i \in 1..Len(pr.captionTracks) : pr.captionTracks[i].languageCode = "en" /\ \A j \in 1..(i - 1) : pr.captionTracks[j].languageCode # "en"])
    ELSE TrackFound(pr.captionTracks[1])

\* C17: the resolver selects the first caption track whose language code
\* is en when there is one, and the first track otherwise; a page without
\* the captions key or with an empty track list gives NoCaptions.
C17_PrefersEnglish ==
    /\ caption_track.get_transcript # NotCalled => caption_track.get_transcript = PreferredTrack(player_response)
    /\ caption_track.fetch_transcript # NotCalled => caption_track.fetch_transcript = PreferredTrack(player_response)

\* the event carries text: its sub-segment texts, put together, are more
\* than blanks
CarriesText(event) == event.has_segs /\ strip(join(utf8_parts(event), <<>>)) # <<>>

\* what a decoder is to make of a payload as far as the texts go
WellFormed(d, data) ==
    /\ d.kind = "return" => (d.segments # <<>> /\ \A i \in 1..Len(d.segments) : strip(d.segments[i].text) # <<>>)
    /\ (d # NotDecoded /\ \A k \in 1..Len(data.events) : ~CarriesText(data.events[k])) => d = EmptyTranscript

\* C18: every segment of a decoded transcript has a text that is not empty
\* after trimming: an event whose text is empty or blank gives no segment,
\* and a payload that gives no segment at all is an error.
C18_NoBlankSegment ==
    /\ WellFormed(transcript.get_transcript, transcript_data)
    /\ WellFormed(transcript.fetch_transcript, transcript_data)

\* the segments of d are made from events of the payload in their order,
\* none of the events that carry text and a start time being left out
InEventOrder(d, events) ==
    \E f \in [1..Len(d.segments) -> 1..Len(events)] :
        /\ \A i, j \in 1..Len(d.segments) : i < j => f[i] < f[j]
        /\ \A k \in 1..Len(events) : (CarriesText(events[k]) /\ events[k].has_tStartMs) => \E i \in 1..Len(d.segments) : f[i] = k
        /\ \A i \in 1..Len(d.segments) :
              /\ d.segments[i].text = strip(join(utf8_parts(events[f[i]]), <<>>))
              /\ events[f[i]].has_tStartMs => d.segments[i].start = Seconds(events[f[i]].tStartMs)
              /\ d.segments[i].duration = (IF events[f[i]].has_dDurationMs THEN Seconds(events[f[i]].dDurationMs) ELSE Seconds(0))

\* C19: the decoder emits its segments in the order of the events that
\* carry text; the text of a segment is its event's sub-segment texts put
\* together with nothing in between (and trimmed), its start is the
\* event's tStartMs / 1000 and its duration the event's dDurationMs / 1000,
\* 0 when the event has none.
C19_SegmentsFollowEvents ==
    /\ transcript.get_transcript.kind = "return" => InEventOrder(transcript.get_transcript, transcript_data.events)
    /\ transcript.fetch_transcript.kind = "return" => InEventOrder(transcript.fetch_transcript, transcript_data.events)

\* the content cannot be parsed by the first attempt
Unparseable(content) == ~json_loads(IF bracketed(content) THEN json_str(content) ELSE content)

\* C20: the topics operation makes at most two completion calls and never
\* raises for a parse failure: a first response that cannot be parsed is
\* followed by exactly one retry, and a retry response that cannot be
\* parsed either (no bracketed array, or a bracketed substring that is not
\* valid JSON) makes it return the one-element error marker.
C20_TopicsNeverRaise ==
    /\ Len(topics.responses) <= 2
    /\ topics.result.kind = "raise" => topics.result.cause # "JSONDecodeError"
    /\ (topics.pc = "done" /\ topics.responses[1] # ApiError /\ Unparseable(topics.responses[1])) => Len(topics.responses) = 2
    /\ (topics.pc = "done" /\ Len(topics.responses) = 2 /\ topics.responses[2] # ApiError /\ (~bracketed(topics.responses[2]) \/ ~json_loads(json_str(topics.responses[2])))) => topics.result = ParseErrorMarker

\* C21: every endpoint answers 400 exactly when extract_video_id raised for
\* the url, and then get_transcript was not called; when extract_video_id
\* returned and a later stage of the request raised, the answer is 500.
C21_ErrorMapping ==
    http_response # NoRequest =>
        /\ (http_response.status_code = 400) <=> (video_id.kind = "raise")
        /\ video_id.kind = "raise" => http_response.get_transcript = "none"
        /\ (video_id.kind = "return" /\ "Exception" \in {http_response.get_transcript, http_response.generate})
              <=> http_response.status_code = 500

\* an endpoint answered 400 for a url that extract_video_id rejected
C21_Witness ==
    /\ http_response.endpoint = "/topics"
    /\ http_response.status_code = 400
    /\ video_id = InvalidUrl(url)
    /\ http_response.get_transcript = "none"

\* C22: used_proxies gains an endpoint only in an iteration whose attempt
\* through that endpoint succeeded, and gains it then; an endpoint leaves the
\* set only in a step where a refresh obtained candidates; and no attempt is
\* made through an endpoint that is in the set, whichever invocation put it
\* there, unless such a refresh ran in the same call of get_proxy.
C22_UsedProxies ==
    [][ LET attempted == Len(attempts') = Len(attempts) + 1
            last == attempts'[Len(attempts')]
        IN  /\ \A p \in used_proxies' \ used_proxies :
                  lastOp'.op = "iterate" /\ attempted /\ last = [via |-> p, ok |-> TRUE]
            /\ (lastOp'.op = "iterate" /\ attempted /\ last.ok) => last.via \in used_proxies'
            /\ \A p \in used_proxies \ used_proxies' : lastOp'.refreshed = "ok"
            /\ (attempted /\ last.via \in used_proxies) => lastOp'.refreshed = "ok"
      ]_vars

\* an invocation in which no attempt has succeeded has just skipped an
\* endpoint that an earlier invocation succeeded through
C22_Witness ==
    /\ pc = "loop"
    /\ lastOp.op = "iterate"
    /\ lastOp.refreshed = "no"
    /\ lastOp.ret.tag = "Some"
    /\ lastOp.ret.dict.http \in used_proxies
    /\ \A i \in 1..Len(attempts) : ~attempts[i].ok /\ attempts[i].via # lastOp.ret.dict.http

\* C23: a refresh that obtains no candidate leaves last_refresh as it was;
\* every get_proxy call made when more than refresh_interval has passed since
\* last_refresh runs a refresh, and the pool is as stale after a refresh that
\* obtained nothing; a refresh that obtains candidates records the time, and
\* a get_proxy call made within the interval runs no refresh.
C23_RefreshTime ==
    [][ LET stale == clock - last_refresh > refresh_interval
            next == lastOp'.op \in {"get_proxy", "iterate"}
        IN  /\ lastOp'.refreshed = "empty" => last_refresh' = last_refresh
            /\ (next /\ stale) => lastOp'.refreshed # "no"
            /\ (next /\ stale /\ lastOp'.refreshed = "empty") => clock' - last_refresh' > refresh_interval
            /\ lastOp'.refreshed = "ok" => last_refresh' = clock'
            /\ (next /\ ~stale) => lastOp'.refreshed = "no"
      ]_vars

\* a get_proxy call on a stale pool has run a refresh that obtained nothing,
\* and the pool is still stale
C23_Witness ==
    /\ lastOp.op \in {"get_proxy", "iterate"}
    /\ lastOp.refreshed = "empty"
    /\ clock - last_refresh > refresh_interval

====
